---- MODULE Spec2Model ----
(***************************************************************************)
(* Subscription lifecycle and usage metering of the CreativeWriter         *)
(* backend: the Subscription model (checkAndResetUsage, checkLimit,        *)
(* incrementUsage, getForUser), the usageLimit middleware (checkUsageLimit *)
(* and the incrementUsage helper) and the subscription controller          *)
(* (verifyPayment, cancelSubscription, webhook, adminOverrideSubscription).*)
(*                                                                         *)
(* Dates are whole days counted from 1 January of the epoch year; a Date   *)
(* object is its day number, and setMonth / setFullYear are computed on    *)
(* the (year, month, day) fields the way ECMAScript's MakeDay does.        *)
(***************************************************************************)
EXTENDS Integers, Sequences, FiniteSets, TLC

\* ------------------------------------------------------------------------
\* Bounds of the model
\* ------------------------------------------------------------------------

\* a usage counter is never driven above this value by the model
MaxUsage == 2

\* the positive monthly lyrics quota of the free plan in the model's catalog
LyricsQuota == 2

\* longest payment history the model builds
MaxHistory == 2

\* largest counter value and limit tried on the methods applied directly
MaxProbe == 3

\* gateway orders created in a run
MaxOrders == 1

\* the largest redemption count an offer reaches
MaxRedemptions == 3

\* the largest counter value and generation count of the step-by-step
\* usage recording
MaxRace == 4

\* ------------------------------------------------------------------------
\* Calendar: Date.prototype.setMonth / setFullYear
\* ------------------------------------------------------------------------

\* first year of the calendar; day 0 is 1 January of this year
Epoch == [year |-> 2025, month |-> 0, day |-> 1]

IsLeap(y) == (y % 4 = 0 /\ y % 100 # 0) \/ y % 400 = 0

DaysInYear(y) == IF IsLeap(y) THEN 366 ELSE 365

\* m is a month index as in JavaScript, 0 = January
DaysInMonth(y, m) ==
  IF m = 1 THEN (IF IsLeap(y) THEN 29 ELSE 28)
  ELSE IF m \in {3, 5, 8, 10} THEN 30 ELSE 31

RECURSIVE DaysBeforeYear(_)
DaysBeforeYear(y) ==
  IF y <= Epoch.year THEN 0 ELSE DaysBeforeYear(y - 1) + DaysInYear(y - 1)

RECURSIVE DaysBeforeMonth(_, _)
DaysBeforeMonth(y, m) ==
  IF m <= 0 THEN 0 ELSE DaysBeforeMonth(y, m - 1) + DaysInMonth(y, m - 1)

\* the day number of day d of month mm (0..11) of year yy
DayOf(yy, mm, d) == DaysBeforeYear(yy) + DaysBeforeMonth(yy, mm) + (d - 1)

\* MakeDay: the day number of (year, month, date); a month of 12 or more
\* carries into the year, a date beyond the month's length runs on into the
\* following month
MakeDay(y, m, d) == DayOf(y + (m \div 12), m % 12, d)

RECURSIVE YearOf(_, _)
YearOf(n, y) == IF n < DaysInYear(y) THEN y ELSE YearOf(n - DaysInYear(y), y + 1)

RECURSIVE MonthOf(_, _, _)
MonthOf(n, y, m) ==
  IF n < DaysInMonth(y, m) THEN m ELSE MonthOf(n - DaysInMonth(y, m), y, m + 1)

\* the fields of the r-th day (from 0) of year y, which lies in month m
FieldsInMonth(y, m, r) ==
  [year |-> y, month |-> m, day |-> r - DaysBeforeMonth(y, m) + 1]

FieldsInYear(y, r) == FieldsInMonth(y, MonthOf(r, y, 0), r)

\* getFullYear / getMonth / getDate of a day number
DateFields(n) ==
  FieldsInYear(YearOf(n, Epoch.year), n - DaysBeforeYear(YearOf(n, Epoch.year)))

\* the day of month clamped to the length of month mm of year yy
ClampedDay(yy, mm, d) ==
  MakeDay(yy, mm, IF d > DaysInMonth(yy, mm) THEN DaysInMonth(yy, mm) ELSE d)

ClampedNextMonth(f) ==
  ClampedDay(f.year + ((f.month + 1) \div 12), (f.month + 1) % 12, f.day)

\* d.setMonth(d.getMonth() + 1) computed the other way a date library may:
\* the day of month clamped to the length of the target month
AddMonthClamped(n) == ClampedNextMonth(DateFields(n))

\* setMonth(getMonth() + 1) and setFullYear(getFullYear() + 1) on fields
SetNextMonth(f) == MakeDay(f.year, f.month + 1, f.day)

SetNextYear(f) == MakeDay(f.year + 1, f.month, f.day)

\* d.setMonth(d.getMonth() + 1)
AddMonth(n) == SetNextMonth(DateFields(n))

\* d.setFullYear(d.getFullYear() + 1)
AddYear(n) == SetNextYear(DateFields(n))

\* ------------------------------------------------------------------------
\* Plan catalog (SubscriptionPlan)
\* ------------------------------------------------------------------------

Types == {"lyrics", "music", "video", "voice"}

\* a type string no mapping table knows
UnknownType == "invalid"

AllTypes == Types \cup {UnknownType}

Plans == {"free", "pro", "premium", "enterprise"}

Statuses == {"active", "cancelled", "expired", "trial", "past_due"}

\* limits of the default plans: -1 unlimited, 0 unavailable, otherwise a
\* monthly quota.  The catalog keeps, tier by tier, which features are
\* unlimited, unavailable or metered; the metered quotas are scaled down
\* to LyricsQuota.
PlanLimits(p) ==
  CASE p = "free" ->
         [lyricsPerMonth |-> LyricsQuota, musicGenerations |-> 0,
          videoGenerations |-> 0, voiceGenerations |-> 0]
    [] p = "pro" ->
         [lyricsPerMonth |-> LyricsQuota + 1, musicGenerations |-> LyricsQuota,
          videoGenerations |-> 0, voiceGenerations |-> 1]
    [] p = "premium" ->
         [lyricsPerMonth |-> LyricsQuota + 1, musicGenerations |-> LyricsQuota,
          videoGenerations |-> 1, voiceGenerations |-> 1]
    [] OTHER ->
         [lyricsPerMonth |-> -1, musicGenerations |-> -1,
          videoGenerations |-> -1, voiceGenerations |-> -1]

PlanTier(p) == p

\* SubscriptionPlan.findOne({ tier: 'free' })
FreePlan == "free"

\* ------------------------------------------------------------------------
\* Subscription documents
\* ------------------------------------------------------------------------

\* an absent Date field
NoDate == -1

\* an absent string / ObjectId field
None == "none_"

NoOverride ==
  [isOverridden |-> FALSE, overriddenBy |-> None, reason |-> None,
   previousPlan |-> None]

NoPromo == [code |-> None, discountPercentage |-> 0]

\* schema defaults of the usage sub-document, created at day t
DefaultUsage(t) ==
  [lyricsGenerated |-> 0, musicGenerated |-> 0, videoGenerated |-> 0,
   voiceGenerated |-> 0, periodStart |-> t, periodEnd |-> AddMonth(t)]

\* schema defaults of a subscription document created at day t
DefaultSubscription(plan, t) ==
  [plan |-> plan, status |-> "active", billingCycle |-> "none",
   startDate |-> t, endDate |-> NoDate, renewalDate |-> NoDate,
   razorpay |-> [orderId |-> None, paymentId |-> None],
   usage |-> DefaultUsage(t),
   adminOverride |-> NoOverride,
   appliedPromo |-> NoPromo,
   paymentHistory |-> << >>]

\* the mapping tables of checkLimit and incrementUsage
UsageField(type) ==
  CASE type = "lyrics" -> "lyricsGenerated"
    [] type = "music"  -> "musicGenerated"
    [] type = "video"  -> "videoGenerated"
    [] type = "voice"  -> "voiceGenerated"
    [] OTHER -> None

LimitField(type) ==
  CASE type = "lyrics" -> "lyricsPerMonth"
    [] type = "music"  -> "musicGenerations"
    [] type = "video"  -> "videoGenerations"
    [] type = "voice"  -> "voiceGenerations"
    [] OTHER -> None

Max(a, b) == IF a > b THEN a ELSE b

\* a boundary bug: a counter equal to its limit still allowed
checkLimit_offByOne(usage, type, planLimits) ==
  IF UsageField(type) = None
  THEN [allowed |-> FALSE, current |-> 0, limit |-> 0, remaining |-> 0]
  ELSE LET limit   == planLimits[LimitField(type)]
           current == usage[UsageField(type)]
       IN  IF limit = -1
           THEN [allowed |-> TRUE, current |-> current, limit |-> -1, remaining |-> -1]
           ELSE IF limit = 0
           THEN [allowed |-> FALSE, current |-> current, limit |-> 0, remaining |-> 0]
           ELSE [allowed |-> current <= limit, current |-> current, limit |-> limit,
                 remaining |-> limit - current]

\* subscription.checkLimit(type, planLimits), on the document's usage
checkLimit(usage, type, planLimits) ==
  IF UsageField(type) = None
  THEN [allowed |-> FALSE, current |-> 0, limit |-> 0, remaining |-> 0]
  ELSE LET limit   == planLimits[LimitField(type)]
           current == usage[UsageField(type)]
       IN  IF limit = -1
           THEN [allowed |-> TRUE, current |-> current, limit |-> -1, remaining |-> -1]
           ELSE IF limit = 0
           THEN [allowed |-> FALSE, current |-> current, limit |-> 0, remaining |-> 0]
           ELSE [allowed |-> current < limit, current |-> current, limit |-> limit,
                 remaining |-> Max(0, limit - current)]

\* a reset that also fires on the last day of the period
checkAndResetUsage_early(doc, t) ==
  IF t >= doc.usage.periodEnd
  THEN [wasReset |-> TRUE,
        doc |-> [doc EXCEPT !.usage =
                   [lyricsGenerated |-> 0, musicGenerated |-> 0,
                    videoGenerated |-> 0, voiceGenerated |-> 0,
                    periodStart |-> t, periodEnd |-> AddMonth(t)]]]
  ELSE [wasReset |-> FALSE, doc |-> doc]

\* subscription.checkAndResetUsage() at day t: the returned flag and the
\* document as the call leaves it
checkAndResetUsage(doc, t) ==
  IF t > doc.usage.periodEnd
  THEN [wasReset |-> TRUE,
        doc |-> [doc EXCEPT !.usage =
                   [lyricsGenerated |-> 0, musicGenerated |-> 0,
                    videoGenerated |-> 0, voiceGenerated |-> 0,
                    periodStart |-> t, periodEnd |-> AddMonth(t)]]]
  ELSE [wasReset |-> FALSE, doc |-> doc]

\* an increment that saves even when the type is unknown
incrementUsage_alwaysSaves(doc, type) ==
  IF UsageField(type) = None
  THEN [doc |-> doc, saves |-> 1]
  ELSE [doc |-> [doc EXCEPT !.usage[UsageField(type)] = @ + 1], saves |-> 1]

\* subscription.incrementUsage(type): the document as saved and the number
\* of save() calls
incrementUsage(doc, type) ==
  IF UsageField(type) = None
  THEN [doc |-> doc, saves |-> 0]
  ELSE [doc |-> [doc EXCEPT !.usage[UsageField(type)] = @ + 1], saves |-> 1]

\* a demotion that also starts the counters again
expiryCheck_resetsCounters(r, t) ==
  IF r.endDate # NoDate /\ t > r.endDate /\ r.status = "active"
  THEN [r EXCEPT !.plan = FreePlan, !.status = "expired", !.billingCycle = "none",
                 !.usage = DefaultUsage(t)]
  ELSE r

\* an expiry check that spares subscriptions an admin has overridden
expiryCheck_sparesOverridden(r, t) ==
  IF r.endDate # NoDate /\ t > r.endDate /\ r.status = "active"
       /\ ~r.adminOverride.isOverridden
  THEN [r EXCEPT !.plan = FreePlan, !.status = "expired", !.billingCycle = "none"]
  ELSE r

\* an expiry check that ignores the status
expiryCheck_anyStatus(r, t) ==
  IF r.endDate # NoDate /\ t > r.endDate
  THEN [r EXCEPT !.plan = FreePlan, !.status = "expired", !.billingCycle = "none"]
  ELSE r

\* the expiry check of getForUser at day t, on the document r its period
\* check left: an active subscription past its endDate reverts to the free
\* plan
expiryCheck(r, t) ==
  IF r.endDate # NoDate /\ t > r.endDate /\ r.status = "active"
  THEN [r EXCEPT !.plan = FreePlan, !.status = "expired", !.billingCycle = "none"]
  ELSE r

\* Subscription.getForUser(userId) on a stored document at day t: the
\* document as stored and returned afterwards
getForUser(doc, t) == expiryCheck(checkAndResetUsage(doc, t).doc, t)

\* ------------------------------------------------------------------------
\* State
\* ------------------------------------------------------------------------

Users == {"u1"}

\* req.user of an unauthenticated request
NoUser == "nobody"

Requests == {"r1"}

\* the clock readings the model samples, as day numbers: 31 Jan, 3 Mar and
\* 4 Mar 2025
Instants == {30, 61, 62}

VARIABLES
  now,      \* new Date() / Date.now(), as a day number
  users,    \* the User collection: ids of the registered accounts
  subs,     \* the Subscription collection: user id -> stored document
  plans,    \* the SubscriptionPlan collection: plan id -> its offers
  reqs,     \* generation requests between checkUsageLimit and the handler's end
  gens,     \* per user and type: generations answered with success since the
            \* user's counters were last set to zero
  resp,     \* what the last handled call answered
  probe,    \* input and output of a directly applied model method
  config,   \* config.razorpay: the gateway credentials of the process
  orders    \* the orders created at the payment gateway, oldest first

vars == <<now, users, subs, plans, reqs, gens, resp, probe, config, orders>>

HasSub(u) == u \in DOMAIN subs

\* the collection after an insert or a save of u's document
Put(store, u, doc) ==
  [v \in DOMAIN store \cup {u} |-> IF v = u THEN doc ELSE store[v]]

NoGens == [t \in Types |-> 0]

\* read: the counter value in the copy of the document a recording works on
IdleReq ==
  [pc |-> "idle", user |-> NoUser, type |-> UnknownType, attached |-> FALSE,
   read |-> 0]

NoResp ==
  [op |-> "none", user |-> NoUser, type |-> UnknownType, http |-> 0, code |-> "none",
   passed |-> FALSE, attached |-> FALSE, threw |-> FALSE, rejected |-> FALSE,
   saves |-> 0, current |-> 0, limit |-> 0, remaining |-> 0, periodEnd |-> NoDate,
   promo |-> None, discount |-> 0, amount |-> 0, orderId |-> None,
   paymentId |-> None, plan |-> None, signature |-> None, reason |-> None]

NoDecision == [allowed |-> FALSE, current |-> 0, limit |-> 0, remaining |-> 0]

\* nothing applied directly: the methods' inputs and results at rest
NoProbe ==
  [op |-> "none", type |-> UnknownType, limits |-> PlanLimits(FreePlan),
   before |-> DefaultSubscription(FreePlan, 0),
   after |-> DefaultSubscription(FreePlan, 0),
   out |-> NoDecision, flag |-> FALSE, saves |-> 0]

KeyId == "rzp_key"

KeySecret == "rzp_secret"

WebhookSecret == "whsec"

\* config.razorpay with every credential set
Configured ==
  [keyId |-> KeyId, keySecret |-> KeySecret, webhookSecret |-> WebhookSecret]

\* list prices of the default plans, in thousandths of a rupee
PlanPricing(p) ==
  CASE p = "free"    -> [monthly |-> 0, yearly |-> 0, currency |-> "INR"]
    [] p = "pro"     -> [monthly |-> 299000, yearly |-> 2999000, currency |-> "INR"]
    [] p = "premium" -> [monthly |-> 799000, yearly |-> 7999000, currency |-> "INR"]
    [] OTHER         -> [monthly |-> 2499000, yearly |-> 24999000, currency |-> "INR"]

\* the offers of the catalog at start: one promo code on the pro plan
InitialOffers(p) ==
  IF p = "pro"
  THEN << [code |-> "SAVE20", discountPercentage |-> 20, validFrom |-> 0,
           validUntil |-> 61, maxRedemptions |-> 1, currentRedemptions |-> 0,
           isActive |-> TRUE] >>
  ELSE << >>

\* the SubscriptionPlan collection at start
Catalog ==
  [p \in Plans |-> [isActive |-> TRUE, pricing |-> PlanPricing(p),
                    offers |-> InitialOffers(p)]]

Init ==
  /\ now = 30
  /\ users = {}
  /\ subs = << >>
  /\ plans = Catalog
  /\ reqs = [r \in Requests |-> IdleReq]
  /\ gens = [u \in Users |-> NoGens]
  /\ resp = NoResp
  /\ probe = NoProbe
  /\ config = Configured
  /\ orders = << >>

\* ------------------------------------------------------------------------
\* Time
\* ------------------------------------------------------------------------

\* the clock moves on to a later sampled reading
Tick ==
  /\ \E t \in Instants : t > now /\ now' = t
  /\ UNCHANGED <<users, subs, plans, reqs, gens, resp, probe, config, orders>>

\* ------------------------------------------------------------------------
\* authController.register
\* ------------------------------------------------------------------------

\* register: creates the account, then a free subscription with the schema
\* defaults; an error of the subscription insert is logged and swallowed
Register(u, subFails) ==
  /\ u \notin users
  /\ users' = users \cup {u}
  /\ subs' = IF subFails \/ HasSub(u) THEN subs
             ELSE Put(subs, u, DefaultSubscription(FreePlan, now))
  /\ gens' = [gens EXCEPT ![u] = NoGens]
  /\ resp' = [NoResp EXCEPT !.op = "register", !.user = u, !.http = 201,
                            !.code = "ok", !.threw = subFails]
  /\ UNCHANGED <<now, plans, reqs, probe, config, orders>>

\* ------------------------------------------------------------------------
\* Store calls that can reject
\* ------------------------------------------------------------------------

\* which store call of a handler rejects: 0 none, k the k-th call it makes
FailPoints == 0..6

\* the store calls of getForUser, the failAt-th of them rejecting: findOne;
\* save() if the period was reset; and, for an expired active subscription,
\* SubscriptionPlan.findOne, save(), findOne.  r: the document after the
\* period check; full: the document getForUser returns when nothing rejects.
\* stored: the document in the store afterwards; calls: store calls made;
\* reset: a period reset was persisted.
GetForUserCalls(doc, r, wasReset, full, failAt) ==
  IF failAt = 1
  THEN [threw |-> TRUE, stored |-> doc, calls |-> 1, reset |-> FALSE]
  ELSE IF wasReset /\ failAt = 2
  THEN [threw |-> TRUE, stored |-> doc, calls |-> 2, reset |-> FALSE]
  ELSE IF full = r
  THEN [threw |-> FALSE, stored |-> r, calls |-> IF wasReset THEN 2 ELSE 1,
        reset |-> wasReset]
  ELSE IF failAt \in {(IF wasReset THEN 2 ELSE 1) + 1, (IF wasReset THEN 2 ELSE 1) + 2}
  THEN [threw |-> TRUE, stored |-> r, calls |-> failAt, reset |-> wasReset]
  ELSE IF failAt = (IF wasReset THEN 2 ELSE 1) + 3
  THEN [threw |-> TRUE, stored |-> full, calls |-> failAt, reset |-> wasReset]
  ELSE [threw |-> FALSE, stored |-> full, calls |-> (IF wasReset THEN 2 ELSE 1) + 3,
        reset |-> wasReset]

\* Subscription.getForUser(userId) where the failAt-th store call rejects
GetForUserRun(doc, t, failAt) ==
  GetForUserCalls(doc, checkAndResetUsage(doc, t).doc,
                  checkAndResetUsage(doc, t).wasReset, getForUser(doc, t), failAt)

\* Subscription.getForUser(userId) for a user id, with or without a document
LookupRun(u, failAt) ==
  IF HasSub(u)
  THEN [found |-> TRUE] @@ GetForUserRun(subs[u], now, failAt)
  ELSE [found |-> FALSE, threw |-> failAt = 1, calls |-> 1, reset |-> FALSE]

\* the collection after a lookup of u
StoreAfter(u, run) == IF run.found THEN Put(subs, u, run.stored) ELSE subs

\* gens after u's counters were (or were not) set to zero
GensAfter(u, zeroed) == IF zeroed THEN [gens EXCEPT ![u] = NoGens] ELSE gens

\* ------------------------------------------------------------------------
\* subscriptionController.getMySubscription
\* ------------------------------------------------------------------------

GetMySubscription(u, failAt) ==
  /\ u \in users
  /\ LET run == LookupRun(u, failAt)
     IN  /\ subs' = StoreAfter(u, run)
         /\ gens' = GensAfter(u, run.reset)
         /\ resp' = [NoResp EXCEPT
                       !.op = "getMySubscription", !.user = u, !.threw = run.threw,
                       !.http = IF run.threw THEN 500 ELSE IF run.found THEN 200 ELSE 404,
                       !.code = IF run.threw THEN "ERROR"
                                ELSE IF run.found THEN "ok" ELSE "NO_SUBSCRIPTION"]
  /\ UNCHANGED <<now, users, plans, reqs, probe, config, orders>>

\* ------------------------------------------------------------------------
\* middleware/usageLimit: checkUsageLimit(type)
\* ------------------------------------------------------------------------

\* a catch block that forwards the error instead of failing open
checkUsageLimitOutcome_failClosed(u, type, run) ==
  LET sub == run.stored
      lc  == checkLimit(sub.usage, type, PlanLimits(sub.plan))
      rej == [NoResp EXCEPT !.op = "checkUsageLimit", !.user = u, !.type = type]
  IN  IF u = NoUser
      THEN [rej EXCEPT !.http = 401, !.code = "NO_USER"]
      ELSE IF run.threw
      THEN [rej EXCEPT !.http = 500, !.code = "ERROR", !.threw = TRUE]
      ELSE IF ~run.found
      THEN [rej EXCEPT !.http = 403, !.code = "NO_SUBSCRIPTION"]
      ELSE IF sub.status # "active" /\ sub.status # "trial"
      THEN [rej EXCEPT !.http = 403, !.code = "SUBSCRIPTION_INACTIVE"]
      ELSE IF ~lc.allowed
      THEN IF lc.limit = 0
           THEN [rej EXCEPT !.http = 403, !.code = "FEATURE_NOT_AVAILABLE"]
           ELSE [rej EXCEPT !.http = 429, !.code = "USAGE_LIMIT_REACHED",
                            !.current = lc.current, !.limit = lc.limit,
                            !.remaining = 0, !.periodEnd = sub.usage.periodEnd]
      ELSE [rej EXCEPT !.code = "next", !.passed = TRUE, !.attached = TRUE]

\* a status test that lets every status through
checkUsageLimitOutcome_noStatusTest(u, type, run) ==
  LET sub == run.stored
      lc  == checkLimit(sub.usage, type, PlanLimits(sub.plan))
      rej == [NoResp EXCEPT !.op = "checkUsageLimit", !.user = u, !.type = type]
  IN  IF u = NoUser
      THEN [rej EXCEPT !.http = 401, !.code = "NO_USER"]
      ELSE IF run.threw
      THEN [rej EXCEPT !.code = "next", !.passed = TRUE, !.threw = TRUE]
      ELSE IF ~run.found
      THEN [rej EXCEPT !.http = 403, !.code = "NO_SUBSCRIPTION"]
      ELSE IF ~lc.allowed
      THEN IF lc.limit = 0
           THEN [rej EXCEPT !.http = 403, !.code = "FEATURE_NOT_AVAILABLE"]
           ELSE [rej EXCEPT !.http = 429, !.code = "USAGE_LIMIT_REACHED",
                            !.current = lc.current, !.limit = lc.limit,
                            !.remaining = 0, !.periodEnd = sub.usage.periodEnd]
      ELSE [rej EXCEPT !.code = "next", !.passed = TRUE, !.attached = TRUE]

\* a status test that turns away cancelled subscriptions only
checkUsageLimitOutcome_expiredPasses(u, type, run) ==
  LET sub == run.stored
      lc  == checkLimit(sub.usage, type, PlanLimits(sub.plan))
      rej == [NoResp EXCEPT !.op = "checkUsageLimit", !.user = u, !.type = type]
  IN  IF u = NoUser
      THEN [rej EXCEPT !.http = 401, !.code = "NO_USER"]
      ELSE IF run.threw
      THEN [rej EXCEPT !.code = "next", !.passed = TRUE, !.threw = TRUE]
      ELSE IF ~run.found
      THEN [rej EXCEPT !.http = 403, !.code = "NO_SUBSCRIPTION"]
      ELSE IF sub.status = "cancelled"
      THEN [rej EXCEPT !.http = 403, !.code = "SUBSCRIPTION_INACTIVE"]
      ELSE IF ~lc.allowed
      THEN IF lc.limit = 0
           THEN [rej EXCEPT !.http = 403, !.code = "FEATURE_NOT_AVAILABLE"]
           ELSE [rej EXCEPT !.http = 429, !.code = "USAGE_LIMIT_REACHED",
                            !.current = lc.current, !.limit = lc.limit,
                            !.remaining = 0, !.periodEnd = sub.usage.periodEnd]
      ELSE [rej EXCEPT !.code = "next", !.passed = TRUE, !.attached = TRUE]

\* the answer of the middleware for req.user = u, given the lookup's run:
\* passed = next() without an error, otherwise the rejection's status and
\* code; attached = req.subscription was set
checkUsageLimitOutcome(u, type, run) ==
  LET sub == run.stored
      lc  == checkLimit(sub.usage, type, PlanLimits(sub.plan))
      rej == [NoResp EXCEPT !.op = "checkUsageLimit", !.user = u, !.type = type]
  IN  IF u = NoUser
      THEN [rej EXCEPT !.http = 401, !.code = "NO_USER"]
      ELSE IF run.threw
      THEN [rej EXCEPT !.code = "next", !.passed = TRUE, !.threw = TRUE]
      ELSE IF ~run.found
      THEN [rej EXCEPT !.http = 403, !.code = "NO_SUBSCRIPTION"]
      ELSE IF sub.status # "active" /\ sub.status # "trial"
      THEN [rej EXCEPT !.http = 403, !.code = "SUBSCRIPTION_INACTIVE"]
      ELSE IF ~lc.allowed
      THEN IF lc.limit = 0
           THEN [rej EXCEPT !.http = 403, !.code = "FEATURE_NOT_AVAILABLE"]
           ELSE [rej EXCEPT !.http = 429, !.code = "USAGE_LIMIT_REACHED",
                            !.current = lc.current, !.limit = lc.limit,
                            !.remaining = 0, !.periodEnd = sub.usage.periodEnd]
      ELSE [rej EXCEPT !.code = "next", !.passed = TRUE, !.attached = TRUE]

\* the generation routes that mount checkUsageLimit(type) before the handler
GatedTypes == {"music", "video", "voice"}

\* POST /:lyricsId/music, /video, /voice: request r of user u reaches
\* checkUsageLimit(type); when the middleware calls next() the request goes
\* on to its handler
CheckUsageLimit(r, u, type, failAt) ==
  /\ reqs[r].pc = "idle"
  /\ u \in users \cup {NoUser}
  /\ LET run == IF u = NoUser
                THEN [found |-> FALSE, threw |-> FALSE, calls |-> 0, reset |-> FALSE]
                ELSE LookupRun(u, failAt)
         out == checkUsageLimitOutcome(u, type, run)
     IN  /\ subs' = IF u = NoUser THEN subs ELSE StoreAfter(u, run)
         /\ gens' = IF u = NoUser THEN gens ELSE GensAfter(u, run.reset)
         /\ resp' = out
         /\ reqs' = IF out.passed
                    THEN [reqs EXCEPT ![r] = [pc |-> "handler", user |-> u,
                                              type |-> type, attached |-> out.attached,
                                              read |-> 0]]
                    ELSE reqs
  /\ UNCHANGED <<now, users, plans, probe, config, orders>>

\* POST /lyrics/generate: after protect the request goes to generateLyrics;
\* the route mounts no checkUsageLimit
GenerateLyricsRoute(r, u) ==
  /\ reqs[r].pc = "idle"
  /\ u \in users
  /\ reqs' = [reqs EXCEPT ![r] = [pc |-> "handler", user |-> u, type |-> "lyrics",
                                  attached |-> FALSE, read |-> 0]]
  /\ resp' = [NoResp EXCEPT !.op = "lyricsRoute", !.user = u, !.type = "lyrics",
                            !.code = "next", !.passed = TRUE]
  /\ UNCHANGED <<now, users, subs, plans, gens, probe, config, orders>>

\* ------------------------------------------------------------------------
\* middleware/usageLimit: incrementUsage(type, userId), and the handlers
\* ------------------------------------------------------------------------

\* the helper incrementUsage(type, userId): a fresh getForUser, then the
\* document's incrementUsage; every error is logged and swallowed.
\* rejected: the returned promise rejects; threw: an error was caught
incrementUsageHelper(u, type, failAt) ==
  LET run == LookupRun(u, failAt)
  IN  IF run.threw \/ ~run.found
      THEN [store |-> StoreAfter(u, run), reset |-> run.reset, threw |-> run.threw,
            rejected |-> FALSE, saves |-> 0]
      ELSE LET inc   == incrementUsage(run.stored, type)
               fails == inc.saves > 0 /\ failAt = run.calls + 1
           IN  [store |-> Put(subs, u, IF fails THEN run.stored ELSE inc.doc),
                reset |-> run.reset, threw |-> fails, rejected |-> FALSE,
                saves |-> inc.saves]

\* the generation handler of request r ends: after a successful generation
\* it calls the helper and answers 200; a failed generation records nothing
Generate(r, ok, failAt) ==
  /\ reqs[r].pc = "handler"
  /\ LET u    == reqs[r].user
         type == reqs[r].type
         rec  == incrementUsageHelper(u, type, failAt)
         g    == GensAfter(u, rec.reset)
     IN  IF ok
         THEN /\ type \in Types => g[u][type] < MaxUsage
              /\ (type \in Types /\ HasSub(u)) =>
                   rec.store[u].usage[UsageField(type)] <= MaxUsage
              /\ subs' = rec.store
              /\ gens' = IF type \in Types
                         THEN [g EXCEPT ![u][type] = @ + 1] ELSE g
              /\ resp' = [NoResp EXCEPT
                            !.op = "generate", !.user = u, !.type = type,
                            !.http = IF rec.rejected THEN 500 ELSE 200,
                            !.code = IF rec.rejected THEN "ERROR" ELSE "ok",
                            !.threw = rec.threw, !.rejected = rec.rejected,
                            !.saves = rec.saves]
         ELSE /\ resp' = [NoResp EXCEPT !.op = "generate", !.user = u,
                                        !.type = type, !.http = 500,
                                        !.code = "GENERATION_FAILED"]
              /\ UNCHANGED <<subs, gens>>
  /\ reqs' = [reqs EXCEPT ![r] = IdleReq]
  /\ UNCHANGED <<now, users, plans, probe, config, orders>>

\* ------------------------------------------------------------------------
\* Usage recording step by step: the helper's getForUser and the save() of
\* incrementUsage are separate store operations, and other requests of the
\* same user run between them
\* ------------------------------------------------------------------------

RaceRequests == {"r1", "r2"}

\* an increment done by the store on the stored value ($inc)
Recorded_atomicIncrement(doc, type, read) ==
  [doc EXCEPT !.usage[UsageField(type)] = @ + 1]

\* this.usage[field] += 1; this.save() on a copy whose counter was read:
\* save() sends the modified path only, with the value computed on the
\* copy, and the store applies it to whatever it holds now
Recorded(doc, type, read) ==
  [doc EXCEPT !.usage[UsageField(type)] = read + 1]

\* the generation of request r succeeded and the helper's getForUser
\* answers: the request now holds its copy of the document.  Without a
\* subscription, or for an unknown type, nothing is saved and the handler
\* ends here
RecordRead(r) ==
  /\ reqs[r].pc = "handler"
  /\ LET u    == reqs[r].user
         type == reqs[r].type
         run  == LookupRun(u, 0)
         g    == GensAfter(u, run.reset)
     IN  /\ subs' = StoreAfter(u, run)
         /\ IF run.found /\ UsageField(type) # None
            THEN /\ reqs' = [reqs EXCEPT ![r].pc = "saving",
                                         ![r].read = run.stored.usage[UsageField(type)]]
                 /\ gens' = g
                 /\ resp' = [NoResp EXCEPT !.op = "incrementUsage.getForUser",
                                           !.user = u, !.type = type,
                                           !.current = run.stored.usage[UsageField(type)]]
            ELSE /\ type \in Types => g[u][type] < MaxRace
                 /\ reqs' = [reqs EXCEPT ![r] = IdleReq]
                 /\ gens' = IF type \in Types
                            THEN [g EXCEPT ![u][type] = @ + 1] ELSE g
                 /\ resp' = [NoResp EXCEPT !.op = "generate", !.user = u,
                                           !.type = type, !.http = 200, !.code = "ok"]
  /\ UNCHANGED <<now, users, plans, probe, config, orders>>

\* the save() of request r's recording reaches the store, and the handler
\* answers 200
RecordWrite(r) ==
  /\ reqs[r].pc = "saving"
  /\ LET u    == reqs[r].user
         type == reqs[r].type
     IN  /\ reqs[r].read + 1 <= MaxRace
         /\ gens[u][type] < MaxRace
         /\ subs' = Put(subs, u, Recorded(subs[u], type, reqs[r].read))
         /\ gens' = [gens EXCEPT ![u][type] = @ + 1]
         /\ resp' = [NoResp EXCEPT !.op = "generate", !.user = u, !.type = type,
                                   !.http = 200, !.code = "ok", !.saves = 1,
                                   !.current = reqs[r].read]
  /\ reqs' = [reqs EXCEPT ![r] = IdleReq]
  /\ UNCHANGED <<now, users, plans, probe, config, orders>>

\* ------------------------------------------------------------------------
\* utils/razorpay and subscriptionController.verifyPayment
\* ------------------------------------------------------------------------

OrderIds == {"order_1"}

PaymentIds == {"pay_1"}

\* the HMAC of orderId|paymentId under the key secret
Hmac(secret, orderId, paymentId) ==
  [kind |-> "hmac", secret |-> secret, body |-> <<orderId, paymentId>>]

\* a request without a signature, and one with a made-up signature
NoSignature == [kind |-> "missing"]

Forged == [kind |-> "forged"]

\* razorpay.fetchPayment(paymentId): rejects, or answers the payment with
\* its amount in paise
FetchRejects == [ok |-> FALSE, amount |-> 0]

Fetched(amount) == [ok |-> TRUE, amount |-> amount]

\* a check that computes the digest even when no key secret is configured
verifyPaymentSignature_noSecretTest(secret, orderId, paymentId, signature) ==
  Hmac(secret, orderId, paymentId) = signature

\* razorpay.verifyPaymentSignature(orderId, paymentId, signature)
verifyPaymentSignature(secret, orderId, paymentId, signature) ==
  IF secret = None THEN FALSE
  ELSE Hmac(secret, orderId, paymentId) = signature

\* String.prototype.toUpperCase on the promo codes the model sends
ToUpperCase(code) ==
  CASE code = "save20" -> "SAVE20"
    [] code = "Save20" -> "SAVE20"
    [] code = "bogus"  -> "BOGUS"
    [] OTHER -> code

\* amount / 100 of an amount in paise, in thousandths of a rupee
FromPaise(paise) == paise * 10

\* plan.offers.find(o => o.code === code): index of the first match, 0 if none
RECURSIVE FindOffer(_, _, _)
FindOffer(offers, code, i) ==
  IF i > Len(offers) THEN 0
  ELSE IF offers[i].code = code THEN i ELSE FindOffer(offers, code, i + 1)

HistoryEntry(paymentId, amount, currency, status, t) ==
  [razorpayPaymentId |-> paymentId, amount |-> amount, currency |-> currency,
   status |-> status, paidAt |-> t]

\* an activation that leaves the usage sub-document as it was
Activated_keepsUsage(doc, plan, cycle, orderId, paymentId, promo, amount, currency, t) ==
  LET endDate == IF cycle = "yearly" THEN AddYear(t) ELSE AddMonth(t)
  IN  [doc EXCEPT
         !.plan = plan, !.status = "active", !.billingCycle = cycle,
         !.startDate = t, !.endDate = endDate, !.renewalDate = endDate,
         !.razorpay = [orderId |-> orderId, paymentId |-> paymentId],
         !.appliedPromo = promo,
         !.paymentHistory = Append(@, HistoryEntry(paymentId, amount, currency,
                                                   "captured", t))]

\* the subscription verifyPayment saves: an existing document updated in
\* place, or (doc = the schema defaults) the one it creates
Activated(doc, plan, cycle, orderId, paymentId, promo, amount, currency, t) ==
  LET endDate == IF cycle = "yearly" THEN AddYear(t) ELSE AddMonth(t)
  IN  [doc EXCEPT
         !.plan = plan, !.status = "active", !.billingCycle = cycle,
         !.startDate = t, !.endDate = endDate, !.renewalDate = endDate,
         !.razorpay = [orderId |-> orderId, paymentId |-> paymentId],
         !.appliedPromo = promo,
         !.usage = [lyricsGenerated |-> 0, musicGenerated |-> 0,
                    videoGenerated |-> 0, voiceGenerated |-> 0,
                    periodStart |-> t, periodEnd |-> endDate],
         !.paymentHistory = Append(@, HistoryEntry(paymentId, amount, currency,
                                                   "captured", t))]

\* a plan lookup that finds active plans only, as createOrder's does
findById_activeOnly(catalog, planId) ==
  planId \in DOMAIN catalog /\ catalog[planId].isActive

\* SubscriptionPlan.findById(planId) answers a plan
findById(catalog, planId) == planId \in DOMAIN catalog

\* verifyPayment; fetched is what razorpay.fetchPayment answers; the
\* failAt-th store call rejects (0: none).  The store calls, in order:
\* SubscriptionPlan.findById; plan.save() when the promo code matched an
\* offer; Subscription.findOne; subscription.save() or Subscription.create;
\* Subscription.findById(...).populate
VerifyPaymentRun(u, orderId, paymentId, signature, planId, cycle, promoCode, fetched, failAt) ==
  /\ u \in users
  /\ LET rej == [NoResp EXCEPT !.op = "verifyPayment", !.user = u, !.plan = planId,
                               !.type = cycle, !.orderId = orderId,
                               !.paymentId = paymentId, !.promo = promoCode,
                               !.signature = signature]
     IN  IF orderId = None \/ paymentId = None \/ signature = NoSignature
         THEN /\ resp' = [rej EXCEPT !.http = 400, !.code = "MISSING_PAYMENT_DETAILS"]
              /\ UNCHANGED <<subs, plans, gens>>
         ELSE IF ~verifyPaymentSignature(config.keySecret, orderId, paymentId, signature)
         THEN /\ resp' = [rej EXCEPT !.http = 400, !.code = "INVALID_SIGNATURE"]
              /\ UNCHANGED <<subs, plans, gens>>
         ELSE IF failAt = 1
         THEN /\ resp' = [rej EXCEPT !.http = 500, !.code = "SERVER_ERROR",
                                     !.threw = TRUE]
              /\ UNCHANGED <<subs, plans, gens>>
         ELSE IF ~findById(plans, planId)
         THEN /\ resp' = [rej EXCEPT !.http = 404, !.code = "PLAN_NOT_FOUND"]
              /\ UNCHANGED <<subs, plans, gens>>
         ELSE LET offers == plans[planId].offers
                  i      == IF promoCode = None THEN 0
                            ELSE FindOffer(offers, ToUpperCase(promoCode), 1)
                  promo  == IF i = 0 THEN NoPromo
                            ELSE [code |-> offers[i].code,
                                  discountPercentage |-> offers[i].discountPercentage]
                  amount == IF ~fetched.ok
                            THEN (IF cycle = "yearly" THEN plans[planId].pricing.yearly
                                  ELSE plans[planId].pricing.monthly)
                            ELSE FromPaise(fetched.amount)
                  old    == IF HasSub(u) THEN subs[u]
                            ELSE DefaultSubscription(planId, now)
                  base   == IF i = 0 THEN 1 ELSE 2
                  failed == [rej EXCEPT !.http = 500, !.code = "SERVER_ERROR",
                                        !.threw = TRUE]
              IN  IF i # 0 /\ failAt = 2
                  THEN /\ resp' = failed
                       /\ UNCHANGED <<subs, plans, gens>>
                  ELSE IF failAt \in {base + 1, base + 2}
                  THEN /\ i # 0 => offers[i].currentRedemptions < MaxRedemptions
                       /\ plans' = IF i = 0 THEN plans
                                   ELSE [plans EXCEPT
                                           ![planId].offers[i].currentRedemptions = @ + 1]
                       /\ resp' = failed
                       /\ UNCHANGED <<subs, gens>>
                  ELSE /\ Len(old.paymentHistory) < MaxHistory
                       /\ i # 0 => offers[i].currentRedemptions < MaxRedemptions
                       /\ plans' = IF i = 0 THEN plans
                                   ELSE [plans EXCEPT
                                           ![planId].offers[i].currentRedemptions = @ + 1]
                       /\ subs' = Put(subs, u, Activated(old, planId, cycle, orderId,
                                                         paymentId, promo, amount,
                                                         plans[planId].pricing.currency,
                                                         now))
                       /\ gens' = GensAfter(u, TRUE)
                       /\ resp' = IF failAt = base + 3 THEN failed
                                  ELSE [rej EXCEPT !.http = 200, !.code = "ok"]
  /\ UNCHANGED <<now, users, reqs, probe, config, orders>>

\* verifyPayment with every store call answering
VerifyPayment(u, orderId, paymentId, signature, planId, cycle, promoCode, fetched) ==
  VerifyPaymentRun(u, orderId, paymentId, signature, planId, cycle, promoCode,
                   fetched, 0)

\* ------------------------------------------------------------------------
\* subscriptionController.validatePromo and createOrder
\* ------------------------------------------------------------------------

\* a window test that shuts the offer on its last day
OfferApplies_exclusiveUntil(o, code, t) ==
  /\ o.code = ToUpperCase(code)
  /\ o.isActive
  /\ t >= o.validFrom
  /\ t < o.validUntil
  /\ (o.maxRedemptions = -1 \/ o.currentRedemptions < o.maxRedemptions)

\* the test both handlers apply to an offer for a supplied code at day t
OfferApplies(o, code, t) ==
  /\ o.code = ToUpperCase(code)
  /\ o.isActive
  /\ t >= o.validFrom
  /\ t <= o.validUntil
  /\ (o.maxRedemptions = -1 \/ o.currentRedemptions < o.maxRedemptions)

\* plan.offers.find(o => ...valid for code now...): index of the first
\* match, 0 if none
RECURSIVE FindValidOffer(_, _, _, _)
FindValidOffer(offers, code, t, i) ==
  IF i > Len(offers) THEN 0
  ELSE IF OfferApplies(offers[i], code, t) THEN i
  ELSE FindValidOffer(offers, code, t, i + 1)

\* validatePromo: answers the offer's code and discount, changes nothing
ValidatePromo(u, code, planId) ==
  /\ u \in users
  /\ LET rej == [NoResp EXCEPT !.op = "validatePromo", !.user = u, !.promo = code,
                               !.plan = planId]
     IN  IF code = None \/ planId = None
         THEN resp' = [rej EXCEPT !.http = 400, !.code = "MISSING_INPUT"]
         ELSE IF planId \notin DOMAIN plans
         THEN resp' = [rej EXCEPT !.http = 404, !.code = "PLAN_NOT_FOUND"]
         ELSE IF FindValidOffer(plans[planId].offers, code, now, 1) = 0
         THEN resp' = [rej EXCEPT !.http = 400, !.code = "INVALID_PROMO"]
         ELSE resp' = [rej EXCEPT
                         !.http = 200, !.code = "ok",
                         !.discount = plans[planId].offers[
                            FindValidOffer(plans[planId].offers, code, now, 1)
                          ].discountPercentage]
  /\ UNCHANGED <<now, users, subs, plans, reqs, gens, probe, config, orders>>

\* Math.round(num / den) for num >= 0, den > 0: halves go up
Round(num, den) == (2 * num + den) \div (2 * den)

\* a discount that drops the fraction instead of rounding
Discounted_truncates(amount, pct) ==
  1000 * ((amount * (100 - pct)) \div 100000)

\* Math.round(amount * (1 - pct / 100)), amounts in thousandths of a rupee
Discounted(amount, pct) ==
  1000 * Round(amount * (100 - pct), 100000)

\* a conversion that drops the fraction of a paisa
ToPaise_truncates(amount) == amount \div 10

\* Math.round(amount * 100): paise of an amount in thousandths of a rupee
ToPaise(amount) == Round(amount, 10)

\* the id the gateway gives its k-th order
GatewayOrderId(k) ==
  CASE k = 1 -> "order_1"
    [] k = 2 -> "order_2"
    [] OTHER -> "order_3"

\* the amount createOrder passes to razorpay.createOrder and the promo it
\* reports: i is the index of the valid offer for the supplied code, 0 if
\* no code was supplied or none is valid
Quote(plan, cycle, i) ==
  LET base == IF cycle = "yearly" THEN plan.pricing.yearly ELSE plan.pricing.monthly
  IN  IF i = 0
      THEN [amount |-> base, promo |-> None, discount |-> 0]
      ELSE [amount |-> Discounted(base, plan.offers[i].discountPercentage),
            promo |-> plan.offers[i].code,
            discount |-> plan.offers[i].discountPercentage]

\* createOrder; gatewayOk: instance.orders.create resolves; failAt = 1:
\* its one store call, SubscriptionPlan.findById, rejects
CreateOrderRun(u, planId, cycle, promoCode, gatewayOk, failAt) ==
  /\ u \in users
  /\ LET rej == [NoResp EXCEPT !.op = "createOrder", !.user = u, !.promo = promoCode,
                               !.plan = planId, !.type = cycle]
     IN  IF planId = None \/ cycle = None
         THEN /\ resp' = [rej EXCEPT !.http = 400, !.code = "MISSING_INPUT"]
              /\ orders' = orders
         ELSE IF failAt = 1
         THEN /\ resp' = [rej EXCEPT !.http = 500, !.code = "SERVER_ERROR",
                                     !.threw = TRUE]
              /\ orders' = orders
         ELSE IF planId \notin DOMAIN plans \/ ~plans[planId].isActive
         THEN /\ resp' = [rej EXCEPT !.http = 404, !.code = "PLAN_NOT_FOUND"]
              /\ orders' = orders
         ELSE IF PlanTier(planId) = "free"
         THEN /\ resp' = [rej EXCEPT !.http = 400, !.code = "FREE_PLAN"]
              /\ orders' = orders
         ELSE IF config.keyId = None \/ config.keySecret = None \/ ~gatewayOk
         THEN /\ resp' = [rej EXCEPT !.http = 500, !.code = "SERVER_ERROR",
                                     !.threw = TRUE]
              /\ orders' = orders
         ELSE LET q == Quote(plans[planId], cycle,
                             IF promoCode = None THEN 0
                             ELSE FindValidOffer(plans[planId].offers, promoCode, now, 1))
              IN  /\ Len(orders) < MaxOrders
                  /\ orders' = Append(orders,
                       [id |-> GatewayOrderId(Len(orders) + 1),
                        amount |-> ToPaise(q.amount),
                        currency |-> plans[planId].pricing.currency,
                        notes |-> [userId |-> u, planId |-> planId,
                                   billingCycle |-> cycle,
                                   promoCode |-> IF q.promo = None THEN "" ELSE q.promo]])
                  /\ resp' = [rej EXCEPT
                                !.http = 200, !.code = "ok",
                                !.orderId = GatewayOrderId(Len(orders) + 1),
                                !.amount = ToPaise(q.amount),
                                !.discount = q.discount,
                                !.attached = q.promo # None]
  /\ UNCHANGED <<now, users, subs, plans, reqs, gens, probe, config>>

\* createOrder with the plan lookup answering
CreateOrder(u, planId, cycle, promoCode, gatewayOk) ==
  CreateOrderRun(u, planId, cycle, promoCode, gatewayOk, 0)

\* adminTogglePlan
AdminTogglePlan(planId) ==
  /\ IF planId \notin DOMAIN plans
     THEN /\ resp' = [NoResp EXCEPT !.op = "adminTogglePlan", !.http = 404,
                                    !.code = "PLAN_NOT_FOUND"]
          /\ plans' = plans
     ELSE /\ resp' = [NoResp EXCEPT !.op = "adminTogglePlan", !.http = 200,
                                    !.code = "ok"]
          /\ plans' = [plans EXCEPT ![planId].isActive = ~@]
  /\ UNCHANGED <<now, users, subs, reqs, gens, probe, config, orders>>

\* ------------------------------------------------------------------------
\* subscriptionController.cancelSubscription
\* ------------------------------------------------------------------------

\* a cancellation that also ends the paid period at once
Cancelled_endsAccess(doc) ==
  [doc EXCEPT !.status = "cancelled", !.endDate = NoDate]

\* subscription.status = 'cancelled': access is kept until the end date
Cancelled(doc) == [doc EXCEPT !.status = "cancelled"]

CancelSubscription(u) ==
  /\ u \in users
  /\ LET run == LookupRun(u, 0)
         rej == [NoResp EXCEPT !.op = "cancelSubscription", !.user = u]
     IN  /\ gens' = GensAfter(u, run.reset)
         /\ IF ~run.found
            THEN /\ resp' = [rej EXCEPT !.http = 404, !.code = "NO_SUBSCRIPTION"]
                 /\ subs' = subs
            ELSE IF PlanTier(run.stored.plan) = "free"
            THEN /\ resp' = [rej EXCEPT !.http = 400, !.code = "CANNOT_CANCEL_FREE"]
                 /\ subs' = StoreAfter(u, run)
            ELSE /\ resp' = [rej EXCEPT !.http = 200, !.code = "ok"]
                 /\ subs' = Put(subs, u, Cancelled(run.stored))
  /\ UNCHANGED <<now, users, plans, reqs, probe, config, orders>>

\* ------------------------------------------------------------------------
\* subscriptionController.webhook
\* ------------------------------------------------------------------------

WebhookEvents == {"payment.captured", "payment.failed", "order.paid"}

\* a check that accepts whatever signature is sent
verifyWebhookSignature_acceptsAll(secret, body, signature) ==
  signature = signature

\* razorpay.verifyWebhookSignature(body, signature)
verifyWebhookSignature(secret, body, signature) ==
  IF secret = None THEN FALSE
  ELSE [kind |-> "hmac", secret |-> secret, body |-> body] = signature

\* a lookup that finds the subscription of the user the order was created for
FindByOrderId_ofPayer(orderId) ==
  LET hits == {u \in DOMAIN subs :
                 \E k \in 1..Len(orders) :
                   orders[k].id = orderId /\ orders[k].notes.userId = u}
  IN  IF hits = {} THEN None ELSE CHOOSE u \in hits : TRUE

\* Subscription.findOne({ 'razorpay.orderId': orderId })
FindByOrderId(orderId) ==
  LET hits == {u \in DOMAIN subs : subs[u].razorpay.orderId = orderId}
  IN  IF hits = {} THEN None ELSE CHOOSE u \in hits : TRUE

\* webhook: body carries the event and its payment entity (order_id, id,
\* amount in paise)
Webhook(signature, event, orderId, paymentId, amount) ==
  LET body == <<event, orderId, paymentId, amount>>
      rej  == [NoResp EXCEPT !.op = "webhook", !.type = event,
                             !.orderId = orderId, !.paymentId = paymentId,
                             !.amount = amount, !.signature = signature]
      u    == FindByOrderId(orderId)
  IN  /\ IF signature = NoSignature \/ ~verifyWebhookSignature(config.webhookSecret, body, signature)
         THEN /\ resp' = [rej EXCEPT !.http = 400, !.code = "INVALID_SIGNATURE"]
              /\ subs' = subs
         ELSE /\ resp' = [rej EXCEPT !.http = 200, !.code = "ok"]
              /\ IF event = "payment.captured" /\ u # None
                 THEN /\ Len(subs[u].paymentHistory) < MaxHistory
                      /\ subs' = [subs EXCEPT
                           ![u].razorpay.paymentId = paymentId,
                           ![u].status = "active",
                           ![u].paymentHistory = Append(@, HistoryEntry(paymentId,
                                FromPaise(amount), "INR", "captured", now))]
                 ELSE IF event = "payment.failed" /\ u # None
                 THEN /\ Len(subs[u].paymentHistory) < MaxHistory
                      /\ subs' = [subs EXCEPT
                           ![u].status = "past_due",
                           ![u].paymentHistory = Append(@, HistoryEntry(paymentId,
                                FromPaise(amount), "INR", "failed", now))]
                 ELSE subs' = subs
      /\ UNCHANGED <<now, users, plans, reqs, gens, probe, config, orders>>

\* ------------------------------------------------------------------------
\* subscriptionController.adminOverrideSubscription
\* ------------------------------------------------------------------------

Admin == "admin"

\* an override that starts the subscription afresh, payment history too
Overridden_dropsHistory(doc, plan, reason, t) ==
  [doc EXCEPT
     !.adminOverride = [isOverridden |-> TRUE, overriddenBy |-> Admin,
                        reason |-> IF reason = None THEN "Admin override" ELSE reason,
                        previousPlan |-> doc.plan],
     !.plan = plan, !.status = "active", !.billingCycle = "none",
     !.usage = DefaultUsage(t), !.paymentHistory = << >>]

\* an override that leaves the usage counters as they were
Overridden_keepsCounters(doc, plan, reason, t) ==
  [doc EXCEPT
     !.adminOverride = [isOverridden |-> TRUE, overriddenBy |-> Admin,
                        reason |-> IF reason = None THEN "Admin override" ELSE reason,
                        previousPlan |-> doc.plan],
     !.plan = plan, !.status = "active", !.billingCycle = "none",
     !.usage.periodStart = t, !.usage.periodEnd = AddMonth(t)]

\* the document adminOverrideSubscription saves over an existing one
Overridden(doc, plan, reason, t) ==
  [doc EXCEPT
     !.adminOverride = [isOverridden |-> TRUE, overriddenBy |-> Admin,
                        reason |-> IF reason = None THEN "Admin override" ELSE reason,
                        previousPlan |-> doc.plan],
     !.plan = plan, !.status = "active", !.billingCycle = "none",
     !.usage = [lyricsGenerated |-> 0, musicGenerated |-> 0,
                videoGenerated |-> 0, voiceGenerated |-> 0,
                periodStart |-> t, periodEnd |-> AddMonth(t)]]

\* the document adminOverrideSubscription creates for a user without one
OverrideCreated(plan, reason, t) ==
  [DefaultSubscription(plan, t) EXCEPT
     !.adminOverride = [isOverridden |-> TRUE, overriddenBy |-> Admin,
                        reason |-> IF reason = None THEN "Admin override" ELSE reason,
                        previousPlan |-> None]]

AdminOverrideSubscription(u, planId, reason) ==
  /\ LET rej == [NoResp EXCEPT !.op = "adminOverrideSubscription", !.user = u,
                               !.plan = planId, !.reason = reason]
     IN  IF planId = None
         THEN /\ resp' = [rej EXCEPT !.http = 400, !.code = "MISSING_INPUT"]
              /\ UNCHANGED <<subs, gens>>
         ELSE IF u \notin users
         THEN /\ resp' = [rej EXCEPT !.http = 404, !.code = "USER_NOT_FOUND"]
              /\ UNCHANGED <<subs, gens>>
         ELSE IF planId \notin Plans
         THEN /\ resp' = [rej EXCEPT !.http = 404, !.code = "PLAN_NOT_FOUND"]
              /\ UNCHANGED <<subs, gens>>
         ELSE /\ resp' = [rej EXCEPT !.http = 200, !.code = "ok"]
              /\ subs' = Put(subs, u, IF HasSub(u)
                                      THEN Overridden(subs[u], planId, reason, now)
                                      ELSE OverrideCreated(planId, reason, now))
              /\ gens' = GensAfter(u, TRUE)
  /\ UNCHANGED <<now, users, plans, reqs, probe, config, orders>>

\* ------------------------------------------------------------------------
\* The model's methods applied directly to a document
\* ------------------------------------------------------------------------

\* a usage sub-document and a limits object for the methods: the counter
\* (the limit) of each feature takes every value of 0..MaxProbe
\* (-1..MaxProbe) as base runs over its range
ProbeUsage(base, start) ==
  [lyricsGenerated |-> base % (MaxProbe + 1),
   musicGenerated  |-> (base + 1) % (MaxProbe + 1),
   videoGenerated  |-> (base + 2) % (MaxProbe + 1),
   voiceGenerated  |-> (base + 3) % (MaxProbe + 1),
   periodStart |-> start, periodEnd |-> AddMonth(start)]

ProbeLimits(base) ==
  [lyricsPerMonth   |-> (base % (MaxProbe + 2)) - 1,
   musicGenerations |-> ((base + 1) % (MaxProbe + 2)) - 1,
   videoGenerations |-> ((base + 2) % (MaxProbe + 2)) - 1,
   voiceGenerations |-> ((base + 3) % (MaxProbe + 2)) - 1]

\* a document, a feature type, a limits object and a clock reading
InitMethods ==
  /\ now \in Instants
  /\ users = {}
  /\ subs = << >>
  /\ plans = Catalog
  /\ reqs = [r \in Requests |-> IdleReq]
  /\ gens = [u \in Users |-> NoGens]
  /\ resp = NoResp
  /\ config = Configured
  /\ orders = << >>
  /\ \E ty \in AllTypes, c \in 0..MaxProbe, l \in 0..(MaxProbe + 1), s \in Instants :
       /\ s <= now
       /\ probe = [NoProbe EXCEPT
                     !.type = ty, !.limits = ProbeLimits(l),
                     !.before = [DefaultSubscription(FreePlan, s) EXCEPT
                                   !.usage = ProbeUsage(c, s)],
                     !.after = [DefaultSubscription(FreePlan, s) EXCEPT
                                   !.usage = ProbeUsage(c, s)]]

\* subscription.checkLimit(type, planLimits)
ApplyCheckLimit ==
  /\ probe.op = "none"
  /\ probe' = [probe EXCEPT
                 !.op = "checkLimit",
                 !.out = checkLimit(probe.before.usage, probe.type, probe.limits)]
  /\ UNCHANGED <<now, users, subs, plans, reqs, gens, resp, config, orders>>

\* await subscription.incrementUsage(type)
ApplyIncrementUsage ==
  /\ probe.op = "none"
  /\ LET r == incrementUsage(probe.before, probe.type)
     IN  probe' = [probe EXCEPT !.op = "incrementUsage", !.after = r.doc,
                                !.saves = r.saves]
  /\ UNCHANGED <<now, users, subs, plans, reqs, gens, resp, config, orders>>

\* subscription.checkAndResetUsage(), and a second call on the document the
\* first one left, at the same clock reading
ApplyCheckAndResetUsage ==
  /\ probe.op \in {"none", "checkAndResetUsage"}
  /\ LET r == checkAndResetUsage(probe.after, now)
     IN  probe' = [probe EXCEPT
                     !.op = IF probe.op = "none" THEN "checkAndResetUsage"
                            ELSE "checkAndResetUsageAgain",
                     !.before = probe.after, !.after = r.doc, !.flag = r.wasReset,
                     !.saves = IF probe.op = "none" THEN 0
                               ELSE (IF probe.flag THEN 1 ELSE 0)]
  /\ UNCHANGED <<now, users, subs, plans, reqs, gens, resp, config, orders>>

NextMethods ==
  \/ ApplyCheckLimit
  \/ ApplyIncrementUsage
  \/ ApplyCheckAndResetUsage

SpecMethods == InitMethods /\ [][NextMethods]_vars

\* ------------------------------------------------------------------------
\* Specifications of the running system
\* ------------------------------------------------------------------------

Signatures(orderId, paymentId) ==
  {Forged, Hmac(KeySecret, orderId, paymentId)}

WebhookSignature(event, orderId, paymentId, amount) ==
  [kind |-> "hmac", secret |-> WebhookSecret,
   body |-> <<event, orderId, paymentId, amount>>]

\* the subscription lifecycle, every store call answering: registration,
\* reads, lyrics generation, payment, cancellation, webhooks, admin override
Next ==
  \/ Tick
  \/ \E u \in Users, f \in BOOLEAN : Register(u, f)
  \/ \E u \in Users : GetMySubscription(u, 0)
  \/ \E r \in Requests, u \in Users : GenerateLyricsRoute(r, u)
  \/ \E r \in Requests, ok \in BOOLEAN : Generate(r, ok, 0)
  \/ \E u \in Users, o \in OrderIds, p \in PaymentIds, c \in {"monthly", "yearly"} :
       \E sg \in Signatures(o, p) :
         VerifyPayment(u, o, p, sg, "pro", c, None, FetchRejects)
  \/ \E u \in Users : CancelSubscription(u)
  \/ \E e \in WebhookEvents, o \in OrderIds, p \in PaymentIds :
       Webhook(WebhookSignature(e, o, p, 29900), e, o, p, 29900)
  \/ \E u \in Users : AdminOverrideSubscription(u, "pro", None)

Spec == Init /\ [][Next]_vars

\* usage metering, every store call answering: the gated generation routes
\* and the lyrics route, on the free plan and on an overridden one
NextUsage ==
  \/ Tick
  \/ \E u \in Users, f \in BOOLEAN : Register(u, f)
  \/ \E r \in Requests, u \in Users \cup {NoUser}, ty \in GatedTypes :
       CheckUsageLimit(r, u, ty, 0)
  \/ \E r \in Requests, u \in Users : GenerateLyricsRoute(r, u)
  \/ \E r \in Requests, ok \in BOOLEAN : Generate(r, ok, 0)
  \/ \E u \in Users : CancelSubscription(u)
  \/ \E u \in Users : AdminOverrideSubscription(u, "pro", None)

SpecUsage == Init /\ [][NextUsage]_vars

\* store calls may reject
NextFaults ==
  \/ Tick
  \/ \E u \in Users, f \in BOOLEAN : Register(u, f)
  \/ \E r \in Requests, u \in Users, ty \in {"music"}, k \in FailPoints :
       CheckUsageLimit(r, u, ty, k)
  \/ \E r \in Requests, u \in Users : GenerateLyricsRoute(r, u)
  \/ \E r \in Requests, ok \in BOOLEAN, k \in FailPoints : Generate(r, ok, k)
  \/ \E u \in Users, o \in OrderIds, p \in PaymentIds :
       VerifyPayment(u, o, p, Hmac(KeySecret, o, p), "pro", "monthly", None,
                     FetchRejects)

SpecFaults == Init /\ [][NextFaults]_vars

\* the codes a client sends: none, the pro plan's code as stored and in
\* lower case, and a code no plan has
PromoInputs == {None, "SAVE20", "save20", "bogus"}

\* a plan id no plan has
UnknownPlan == "plan_x"

\* monthly list price of the pro plan (thousandths of a rupee) and the
\* discount of its offer: the default price with a half-rupee discount
\* result, a round price, and a price with a fraction of a paisa
PricePoints == {<<299000, 50>>, <<1000000, 20>>, <<9995, 50>>}

\* promo validation and order creation over a catalog whose pro offer is
\* open or not yet open, active or not, capped or not, used or not
InitPromo ==
  /\ now = 30
  /\ users = {}
  /\ subs = << >>
  /\ \E pp \in PricePoints, act \in BOOLEAN, from \in {0, 61},
        cap \in {<<-1, 1>>, <<1, 0>>, <<1, 1>>} :
       plans = [Catalog EXCEPT
                  !["pro"].pricing.monthly = pp[1],
                  !["pro"].offers =
                     << [code |-> "SAVE20", discountPercentage |-> pp[2],
                         validFrom |-> from, validUntil |-> 61,
                         maxRedemptions |-> cap[1], currentRedemptions |-> cap[2],
                         isActive |-> act] >>]
  /\ reqs = [r \in Requests |-> IdleReq]
  /\ gens = [u \in Users |-> NoGens]
  /\ resp = NoResp
  /\ probe = NoProbe
  /\ config = Configured
  /\ orders = << >>

NextPromo ==
  \/ Tick
  \/ \E u \in Users : Register(u, FALSE)
  \/ \E u \in Users, c \in PromoInputs : ValidatePromo(u, c, "pro")
  \/ \E u \in Users, p \in {"premium", None, UnknownPlan} :
       ValidatePromo(u, "save20", p)
  \/ \E u \in Users, cy \in {"monthly", "yearly"}, c \in PromoInputs :
       CreateOrder(u, "pro", cy, c, TRUE)
  \/ \E u \in Users, p \in {"free", None, UnknownPlan} :
       CreateOrder(u, p, "monthly", None, TRUE)
  \/ \E u \in Users, cy \in {"monthly", None}, ok \in BOOLEAN :
       (cy = None \/ ~ok) /\ CreateOrder(u, "pro", cy, None, ok)
  \/ AdminTogglePlan("pro")

SpecPromo == InitPromo /\ [][NextPromo]_vars

\* administration: overrides to any plan, with or without a reason, for
\* users with no subscription, a free, a paid, a cancelled, an expired or a
\* past_due one; cancellations of each of these
NextAdmin ==
  \/ Tick
  \/ \E u \in Users, f \in BOOLEAN : Register(u, f)
  \/ \E u \in Users : GetMySubscription(u, 0)
  \/ \E r \in Requests, u \in Users : GenerateLyricsRoute(r, u)
  \/ \E r \in Requests : Generate(r, TRUE, 0)
  \/ \E u \in Users, o \in OrderIds, p \in PaymentIds :
       VerifyPayment(u, o, p, Hmac(KeySecret, o, p), "pro", "monthly", None,
                     FetchRejects)
  \/ \E o \in OrderIds, p \in PaymentIds :
       Webhook(WebhookSignature("payment.failed", o, p, 29900),
               "payment.failed", o, p, 29900)
  \/ \E u \in Users : CancelSubscription(u)
  \/ \E u \in Users, pl \in {"free", "enterprise"}, rs \in {None, "support"} :
       AdminOverrideSubscription(u, pl, rs)
  \/ \E u \in Users, pl \in {None, UnknownPlan} :
       AdminOverrideSubscription(u, pl, "support")

SpecAdmin == Init /\ [][NextAdmin]_vars

\* access to the generation features over a subscription's life: paid,
\* cancelled, overridden, past its end date; checkUsageLimit applied with
\* each of the four feature types
NextAccess ==
  \/ Tick
  \/ \E u \in Users, f \in BOOLEAN : Register(u, f)
  \/ \E u \in Users : GetMySubscription(u, 0)
  \/ \E r \in Requests, u \in Users, ty \in Types : CheckUsageLimit(r, u, ty, 0)
  \/ \E r \in Requests : Generate(r, TRUE, 0)
  \/ \E u \in Users, o \in OrderIds, p \in PaymentIds :
       VerifyPayment(u, o, p, Hmac(KeySecret, o, p), "pro", "monthly", None,
                     FetchRejects)
  \/ \E u \in Users : CancelSubscription(u)
  \/ \E u \in Users : AdminOverrideSubscription(u, "premium", None)

SpecAccess == Init /\ [][NextAccess]_vars

\* two generation requests of one user at a time, the usage recording of
\* each taken store call by store call; the pro plan meters music and voice
InitRace ==
  /\ now = 30
  /\ users = {}
  /\ subs = << >>
  /\ plans = Catalog
  /\ reqs = [r \in RaceRequests |-> IdleReq]
  /\ gens = [u \in Users |-> NoGens]
  /\ resp = NoResp
  /\ probe = NoProbe
  /\ config = Configured
  /\ orders = << >>

NextRace ==
  \/ Tick
  \/ \E u \in Users : Register(u, FALSE)
  \/ \E u \in Users : AdminOverrideSubscription(u, "pro", None)
  \/ \E r \in RaceRequests, u \in Users, ty \in {"music", "voice"} :
       CheckUsageLimit(r, u, ty, 0)
  \/ \E r \in RaceRequests : RecordRead(r)
  \/ \E r \in RaceRequests : RecordWrite(r)

SpecRace == InitRace /\ [][NextRace]_vars

\* an order id no subscription stores
UnknownOrder == "order_9"

\* payments: verification requests, well-formed or not, webhook deliveries,
\* signed or not, cancellation; the process runs with or without a key
\* secret
InitPayments ==
  /\ now = 30
  /\ users = {}
  /\ subs = << >>
  /\ plans = Catalog
  /\ reqs = [r \in Requests |-> IdleReq]
  /\ gens = [u \in Users |-> NoGens]
  /\ resp = NoResp
  /\ probe = NoProbe
  /\ config \in {Configured, [Configured EXCEPT !.keySecret = None]}
  /\ orders = << >>

NextPayments ==
  \/ Tick
  \/ \E u \in Users, f \in BOOLEAN : Register(u, f)
  \/ \E u \in Users, o \in OrderIds, p \in PaymentIds, c \in {"monthly", "yearly"},
        pc \in {None, "save20"}, ft \in {FetchRejects, Fetched(23900)} :
       VerifyPayment(u, o, p, Hmac(KeySecret, o, p), "pro", c, pc, ft)
  \/ \E u \in Users, o \in OrderIds \cup {None}, p \in PaymentIds \cup {None},
        sg \in {NoSignature, Forged} :
       \/ /\ o = None \/ p = None
          /\ VerifyPayment(u, o, p, Forged, "pro", "monthly", None, FetchRejects)
       \/ /\ o # None /\ p # None
          /\ VerifyPayment(u, o, p, sg, "pro", "monthly", None, FetchRejects)
  \/ \E u \in Users, o \in OrderIds, p \in PaymentIds :
       \/ VerifyPayment(u, o, p, Hmac(None, o, p), "pro", "monthly", None,
                        FetchRejects)
       \/ VerifyPayment(u, o, p, Hmac(config.keySecret, o, p), UnknownPlan,
                        "monthly", "save20", FetchRejects)
  \/ \E e \in WebhookEvents, o \in OrderIds \cup {UnknownOrder, None},
        p \in PaymentIds :
       Webhook(WebhookSignature(e, o, p, 29900), e, o, p, 29900)
  \/ \E e \in {"payment.captured", "payment.failed"}, o \in OrderIds,
        p \in PaymentIds, sg \in {NoSignature, Forged} :
       Webhook(sg, e, o, p, 29900)
  \/ \E u \in Users : CancelSubscription(u)

SpecPayments == InitPayments /\ [][NextPayments]_vars

\* checkout: orders created for the pro plan, payments verified for plans,
\* cycles and promo codes that need not be the order's, store calls of
\* both handlers rejecting, and webhooks for orders verified or not
NextCheckout ==
  \/ \E u \in Users, f \in BOOLEAN : Register(u, f)
  \/ \E u \in Users, c \in {None, "SAVE20"} :
       CreateOrderRun(u, "pro", "monthly", c, TRUE, 0)
  \/ \E u \in Users, ok \in BOOLEAN, k \in {0, 1} :
       (~ok \/ k = 1) /\ CreateOrderRun(u, "pro", "monthly", "SAVE20", ok, k)
  \/ AdminTogglePlan("pro")
  \/ \E u \in Users, o \in OrderIds, p \in PaymentIds, pl \in {"free", "pro"},
        cy \in {"monthly", "yearly"}, c \in {None, "save20"} :
       VerifyPaymentRun(u, o, p, Hmac(KeySecret, o, p), pl, cy, c, FetchRejects, 0)
  \/ \E u \in Users, p \in PaymentIds :
       VerifyPaymentRun(u, UnknownOrder, p, Hmac(KeySecret, UnknownOrder, p),
                        "pro", "monthly", None, FetchRejects, 0)
  \/ \E u \in Users, o \in OrderIds, p \in PaymentIds, c \in {None, "save20"},
        k \in 1..5 :
       VerifyPaymentRun(u, o, p, Hmac(KeySecret, o, p), "pro", "monthly", c,
                        FetchRejects, k)
  \/ \E e \in WebhookEvents, o \in OrderIds \cup {UnknownOrder}, p \in PaymentIds :
       Webhook(WebhookSignature(e, o, p, 29900), e, o, p, 29900)

SpecCheckout == Init /\ [][NextCheckout]_vars

\* ------------------------------------------------------------------------
\* Properties of the model's methods (under SpecMethods)
\* ------------------------------------------------------------------------

\* C1: checkLimit decides on the counter and the limit of the given type
\* alone: limit -1 allows with remaining -1, limit 0 denies with remaining
\* 0, any other limit allows exactly when current < limit with remaining
\* max(0, limit - current), never negative; an unknown type yields
\* {allowed: false, current: 0, limit: 0, remaining: 0}; the document is
\* left as it was.
C1_CheckLimitTable ==
  probe.op = "checkLimit" =>
    LET ty  == probe.type
        u   == probe.before.usage
        l   == probe.limits
        cur == CASE ty = "lyrics" -> u.lyricsGenerated
                 [] ty = "music"  -> u.musicGenerated
                 [] ty = "video"  -> u.videoGenerated
                 [] ty = "voice"  -> u.voiceGenerated
                 [] OTHER -> 0
        lim == CASE ty = "lyrics" -> l.lyricsPerMonth
                 [] ty = "music"  -> l.musicGenerations
                 [] ty = "video"  -> l.videoGenerations
                 [] ty = "voice"  -> l.voiceGenerations
                 [] OTHER -> 0
        out == probe.out
    IN  /\ probe.after = probe.before
        /\ IF ty \notin Types
           THEN out = [allowed |-> FALSE, current |-> 0, limit |-> 0, remaining |-> 0]
           ELSE /\ out.current = cur
                /\ out.limit = lim
                /\ lim = -1 => out.allowed /\ out.remaining = -1
                /\ lim = 0 => ~out.allowed /\ out.remaining = 0
                /\ lim \notin {-1, 0} =>
                     /\ out.allowed <=> cur < lim
                     /\ out.remaining = (IF lim - cur > 0 THEN lim - cur ELSE 0)
                     /\ out.remaining >= 0

\* C1 witness: a metered feature whose counter has passed its limit was
\* decided: denied, with remaining 0
C1_Witness ==
  /\ probe.op = "checkLimit"
  /\ probe.type = "music"
  /\ probe.limits.musicGenerations > 0
  /\ probe.before.usage.musicGenerated > probe.limits.musicGenerations
  /\ ~probe.out.allowed
  /\ probe.out.remaining = 0

\* C5: incrementUsage(type) for a known type raises the matching counter by
\* exactly 1, leaves everything else of the document as it was and saves
\* once; for any other type it changes nothing and does not save.
C5_IncrementUsageFrame ==
  probe.op = "incrementUsage" =>
    LET b  == probe.before
        a  == probe.after
        ty == probe.type
        d  == [f \in {"lyricsGenerated", "musicGenerated", "videoGenerated",
                      "voiceGenerated"} |-> a.usage[f] - b.usage[f]]
    IN  IF ty \in Types
        THEN /\ d.lyricsGenerated = (IF ty = "lyrics" THEN 1 ELSE 0)
             /\ d.musicGenerated  = (IF ty = "music" THEN 1 ELSE 0)
             /\ d.videoGenerated  = (IF ty = "video" THEN 1 ELSE 0)
             /\ d.voiceGenerated  = (IF ty = "voice" THEN 1 ELSE 0)
             /\ a.usage.periodStart = b.usage.periodStart
             /\ a.usage.periodEnd = b.usage.periodEnd
             /\ [a EXCEPT !.usage = b.usage] = b
             /\ probe.saves = 1
        ELSE a = b /\ probe.saves = 0

\* C5 witness: an increment of the voice counter was applied and saved
C5_Witness ==
  /\ probe.op = "incrementUsage"
  /\ probe.type = "voice"
  /\ probe.after.usage.voiceGenerated = probe.before.usage.voiceGenerated + 1
  /\ probe.saves = 1

\* C6: checkAndResetUsage resets (four counters 0, periodStart = now,
\* periodEnd = now advanced by setMonth(getMonth() + 1)) and returns true
\* exactly when now is past periodEnd, otherwise returns false and changes
\* nothing; a second call at the same instant returns false and leaves the
\* document the first call produced.
C6_ResetOnlyPastPeriodEnd ==
  /\ probe.op \in {"checkAndResetUsage", "checkAndResetUsageAgain"} =>
       LET b == probe.before
           a == probe.after
       IN  /\ probe.flag <=> now > b.usage.periodEnd
           /\ probe.flag =>
                /\ a.usage = [lyricsGenerated |-> 0, musicGenerated |-> 0,
                              videoGenerated |-> 0, voiceGenerated |-> 0,
                              periodStart |-> now, periodEnd |-> AddMonth(now)]
                /\ [a EXCEPT !.usage = b.usage] = b
           /\ ~probe.flag => a = b
  /\ probe.op = "checkAndResetUsageAgain" =>
       ~probe.flag /\ probe.after = probe.before

\* C6 witness: the first call reset a period that had ended, and the second
\* call at the same instant found nothing to do
C6_Witness ==
  /\ probe.op = "checkAndResetUsageAgain"
  /\ probe.saves = 1
  /\ ~probe.flag
  /\ probe.after.usage.periodStart = now
  /\ probe.after.usage.lyricsGenerated = 0

\* ------------------------------------------------------------------------
\* Properties of usage metering (under SpecUsage)
\* ------------------------------------------------------------------------

\* C2: for a user with an active subscription on a plan with lyricsPerMonth
\* = L > 0, inside one usage period, a lyrics generation request is allowed
\* while fewer than L lyrics generations have succeeded, and the request
\* after L successful ones is rejected with 429 USAGE_LIMIT_REACHED carrying
\* current = L, limit = L, remaining = 0, and does not reach the handler.
C2_LyricsQuotaEnforced ==
  [][(/\ now' = now
      /\ resp'.op \in {"lyricsRoute", "checkUsageLimit"}
      /\ resp'.type = "lyrics"
      /\ HasSub(resp'.user)
      /\ subs[resp'.user].status = "active"
      /\ now <= subs[resp'.user].usage.periodEnd
      /\ PlanLimits(subs[resp'.user].plan).lyricsPerMonth > 0)
     =>
     LET u    == resp'.user
         L    == PlanLimits(subs[u].plan).lyricsPerMonth
         done == gens[u]["lyrics"]
     IN  /\ done < L => resp'.passed
         /\ done >= L =>
              /\ resp'.http = 429
              /\ resp'.code = "USAGE_LIMIT_REACHED"
              /\ resp'.current = L
              /\ resp'.limit = L
              /\ resp'.remaining = 0
              /\ reqs' = reqs]_vars

C4_FailOpen ==
  /\ (resp.op = "checkUsageLimit" /\ resp.threw) =>
       /\ resp.passed
       /\ resp.http = 0
       /\ resp.code = "next"
       /\ \E r \in Requests :
            /\ reqs[r].pc = "handler"
            /\ reqs[r].user = resp.user
            /\ reqs[r].type = resp.type
  /\ (resp.op = "generate" /\ resp.code # "GENERATION_FAILED") =>
       /\ ~resp.rejected
       /\ resp.http = 200

\* C4 witness: the lookup of checkUsageLimit rejected and the request is at
\* its handler without an attached subscription
C4_Witness ==
  /\ resp.op = "checkUsageLimit"
  /\ resp.threw
  /\ resp.passed
  /\ \E r \in Requests : reqs[r].pc = "handler" /\ ~reqs[r].attached

\* ------------------------------------------------------------------------
\* Properties of the subscription lifecycle (under Spec)
\* ------------------------------------------------------------------------

\* C7: in every reachable state, every subscription's usage.periodEnd is
\* its usage.periodStart advanced by one calendar month (by either way of
\* treating a day the next month lacks): after registration, a rollover,
\* an admin override, and verifyPayment with the monthly or yearly cycle.
C7_PeriodIsOneMonth ==
  \A u \in DOMAIN subs :
    subs[u].usage.periodEnd \in {AddMonth(subs[u].usage.periodStart),
                                 AddMonthClamped(subs[u].usage.periodStart)}

\* C8: a usage period that starts on a day of month the following month
\* lacks ends on the last day of that following month, never in the month
\* after it.
C8_MonthEndClamped ==
  \A u \in DOMAIN subs :
    LET s   == DateFields(subs[u].usage.periodStart)
        e   == DateFields(subs[u].usage.periodEnd)
        ny  == s.year + ((s.month + 1) \div 12)
        nm  == (s.month + 1) % 12
    IN  (subs[u].billingCycle # "yearly" /\ s.day > DaysInMonth(ny, nm)) =>
          /\ e.year = ny
          /\ e.month = nm
          /\ e.day = DaysInMonth(ny, nm)

IsRounded(n, num, den) ==
  /\ 2 * n * den - den <= 2 * num
  /\ 2 * num < 2 * n * den + den

\* the plan has an offer the code names (upper-cased) that is active, open
\* at day t (both ends included) and not used up
ValidOffers(planId, code, t) ==
  {i \in 1..Len(plans[planId].offers) :
     LET o == plans[planId].offers[i]
     IN  /\ o.code = ToUpperCase(code)
         /\ o.isActive = TRUE
         /\ o.validFrom <= t /\ t <= o.validUntil
         /\ (o.maxRedemptions = -1 \/ o.currentRedemptions < o.maxRedemptions)}

C12_ValidatePromo ==
  [][(now' = now /\ resp'.op = "validatePromo") =>
       /\ UNCHANGED <<subs, plans, orders, users>>
       /\ (resp'.promo # None /\ resp'.plan \in DOMAIN plans) =>
            IF ValidOffers(resp'.plan, resp'.promo, now) # {}
            THEN resp'.http = 200 /\ resp'.code = "ok"
            ELSE resp'.http = 400 /\ resp'.code = "INVALID_PROMO"]_vars

\* C12 witness: a lower-case code accepted on the one day the offer is
\* open, its first and last
C12_Witness ==
  /\ resp.op = "validatePromo" /\ resp.code = "ok"
  /\ resp.promo = "save20"
  /\ plans[resp.plan].offers[1].validFrom = 61
  /\ plans[resp.plan].offers[1].validUntil = 61
  /\ now = 61

\* C13: createOrder for an active paid plan with a promo code that names no
\* valid offer of the plan answers INVALID_PROMO and creates no order
C13_InvalidPromoRejected ==
  [][(/\ now' = now
      /\ resp'.op = "createOrder"
      /\ resp'.promo # None /\ resp'.type # None
      /\ resp'.plan \in DOMAIN plans
      /\ plans[resp'.plan].isActive
      /\ PlanTier(resp'.plan) # "free"
      /\ ValidOffers(resp'.plan, resp'.promo, now) = {})
     => /\ resp'.code = "INVALID_PROMO"
        /\ orders' = orders]_vars

\* ------------------------------------------------------------------------
\* Properties of payment verification and webhooks
\* ------------------------------------------------------------------------

\* the request of the last verifyPayment answer lacks a required field
MissingDetails(r) ==
  r.orderId = None \/ r.paymentId = None \/ r.signature = NoSignature

\* the signature of the request is the keyed digest of orderId|paymentId
\* under the configured key secret
GenuineSignature(r) ==
  /\ config.keySecret # None
  /\ r.signature = [kind |-> "hmac", secret |-> config.keySecret,
                    body |-> <<r.orderId, r.paymentId>>]

C15_Activation ==
  [][(now' = now /\ resp'.op = "verifyPayment"
        /\ ~MissingDetails(resp') /\ GenuineSignature(resp')
        /\ resp'.plan \in DOMAIN plans) =>
       LET u   == resp'.user
           old == IF HasSub(u) THEN subs[u].paymentHistory ELSE << >>
       IN  /\ resp'.code = "ok"
           /\ u \in DOMAIN subs'
           /\ LET d == subs'[u]
              IN  /\ d.plan = resp'.plan
                  /\ d.billingCycle = resp'.type
                  /\ d.status = "active"
                  /\ d.startDate = now
                  /\ IF resp'.type = "yearly"
                     THEN d.endDate = AddYear(now)
                     ELSE d.endDate \in {AddMonth(now), AddMonthClamped(now)}
                  /\ d.renewalDate = d.endDate
                  /\ d.razorpay.orderId = resp'.orderId
                  /\ d.razorpay.paymentId = resp'.paymentId
                  /\ d.usage.lyricsGenerated = 0 /\ d.usage.musicGenerated = 0
                  /\ d.usage.videoGenerated = 0 /\ d.usage.voiceGenerated = 0
                  /\ d.usage.periodStart = now
                  /\ Len(d.paymentHistory) = Len(old) + 1
                  /\ SubSeq(d.paymentHistory, 1, Len(old)) = old
                  /\ d.paymentHistory[Len(old) + 1].status = "captured"
                  /\ ~HasSub(u) => Len(d.paymentHistory) = 1]_vars

\* C15 witness: a yearly payment verified over a subscription that already
\* had one payment
C15_Witness ==
  /\ resp.op = "verifyPayment" /\ resp.code = "ok" /\ resp.type = "yearly"
  /\ \E u \in DOMAIN subs :
       /\ u = resp.user
       /\ Len(subs[u].paymentHistory) = 2
       /\ subs[u].startDate = now /\ now > 30

\* some subscription already holds a captured entry for the payment id
AlreadyCaptured(paymentId) ==
  \E u \in DOMAIN subs :
    \E i \in 1..Len(subs[u].paymentHistory) :
      /\ subs[u].paymentHistory[i].razorpayPaymentId = paymentId
      /\ subs[u].paymentHistory[i].status = "captured"

\* C16 (under SpecPayments): verifyPayment or a webhook for a payment id
\* that was already processed as captured changes no offer's
\* currentRedemptions
C16_RedeemedOncePerPayment ==
  [][(now' = now /\ resp'.op \in {"verifyPayment", "webhook"}
        /\ resp'.paymentId # None /\ AlreadyCaptured(resp'.paymentId)) =>
       \A p \in DOMAIN plans :
         \A i \in 1..Len(plans[p].offers) :
           plans'[p].offers[i].currentRedemptions
             = plans[p].offers[i].currentRedemptions]_vars

\* C17 (under SpecPayments): a successful verifyPayment or a
\* payment.captured webhook for a payment id that was already processed as
\* captured leaves every subscription as it was
C17_ActivationIdempotent ==
  [][(now' = now /\ resp'.code = "ok"
        /\ \/ resp'.op = "verifyPayment"
           \/ resp'.op = "webhook" /\ resp'.type = "payment.captured"
        /\ resp'.orderId # None /\ resp'.paymentId # None
        /\ AlreadyCaptured(resp'.paymentId)) =>
       subs' = subs]_vars

\* the signature of the last webhook delivery is the keyed digest of its
\* body under the configured webhook secret
GenuineWebhook(r) ==
  /\ config.webhookSecret # None
  /\ r.signature = [kind |-> "hmac", secret |-> config.webhookSecret,
                    body |-> <<r.type, r.orderId, r.paymentId, r.amount>>]

\* a subscription with the fields a webhook may write blanked
WebhookFrame(d, withPaymentId) ==
  [d EXCEPT !.status = "active", !.paymentHistory = << >>,
            !.razorpay.paymentId = IF withPaymentId THEN None ELSE @]

C19_AdminOverride ==
  [][(now' = now /\ resp'.op = "adminOverrideSubscription"
        /\ resp'.user \in users /\ resp'.plan \in DOMAIN plans) =>
       LET u == resp'.user
       IN  /\ resp'.code = "ok"
           /\ u \in DOMAIN subs'
           /\ LET d == subs'[u]
              IN  /\ d.plan = resp'.plan
                  /\ d.status = "active"
                  /\ d.billingCycle = "none"
                  /\ d.usage.lyricsGenerated = 0 /\ d.usage.musicGenerated = 0
                  /\ d.usage.videoGenerated = 0 /\ d.usage.voiceGenerated = 0
                  /\ d.adminOverride.isOverridden = TRUE
                  /\ d.adminOverride.overriddenBy = Admin
                  /\ d.adminOverride.reason # None
                  /\ resp'.reason # None => d.adminOverride.reason = resp'.reason
                  /\ HasSub(u) => /\ d.adminOverride.previousPlan = subs[u].plan
                                  /\ d.paymentHistory = subs[u].paymentHistory
                  /\ ~HasSub(u) => d.paymentHistory = << >>]_vars

\* C19 witness: a past_due pro subscription with a payment history was
\* overridden to enterprise with a reason
C19_Witness ==
  /\ resp.op = "adminOverrideSubscription" /\ resp.code = "ok"
  /\ resp.plan = "enterprise" /\ resp.reason = "support"
  /\ \E u \in DOMAIN subs :
       /\ u = resp.user
       /\ subs[u].adminOverride.previousPlan = "pro"
       /\ Len(subs[u].paymentHistory) = 2
       /\ subs[u].paymentHistory[2].status = "failed"
       /\ subs[u].status = "active"

\* the stored document is one getForUser hands back on the Free tier at
\* day t: it is on the free plan, or it is active and past its end date
ResolvesToFree(d, t) ==
  \/ PlanTier(d.plan) = "free"
  \/ d.status = "active" /\ d.endDate # NoDate /\ t > d.endDate

\* C20: cancelSubscription answers NO_SUBSCRIPTION without a subscription;
\* CANNOT_CANCEL_FREE, never storing status cancelled, when the
\* subscription resolves to the Free tier; otherwise it stores status
\* cancelled and keeps plan and endDate
C20_Cancel ==
  [][(now' = now /\ resp'.op = "cancelSubscription") =>
       LET u == resp'.user
       IN  IF ~HasSub(u)
           THEN /\ resp'.http = 404 /\ resp'.code = "NO_SUBSCRIPTION"
                /\ subs' = subs
           ELSE IF ResolvesToFree(subs[u], now)
           THEN /\ resp'.http = 400 /\ resp'.code = "CANNOT_CANCEL_FREE"
                /\ subs'[u].status # "cancelled"
                /\ PlanTier(subs'[u].plan) = "free"
           ELSE /\ resp'.http = 200 /\ resp'.code = "ok"
                /\ subs'[u].status = "cancelled"
                /\ subs'[u].plan = subs[u].plan
                /\ subs'[u].endDate = subs[u].endDate]_vars

\* C20 witness: a paid subscription cancelled, its plan and end date kept
C20_Witness ==
  /\ resp.op = "cancelSubscription" /\ resp.code = "ok"
  /\ \E u \in DOMAIN subs :
       /\ u = resp.user
       /\ subs[u].status = "cancelled"
       /\ subs[u].plan = "pro"
       /\ subs[u].endDate = AddMonth(subs[u].startDate)

\* ------------------------------------------------------------------------
\* Properties of the stored subscriptions over the lifecycle (under Spec)
\* ------------------------------------------------------------------------

\* C21: across every step a subscription's paymentHistory keeps its earlier
\* value as a prefix and grows by at most one entry; it grows only in a
\* successful verifyPayment (one captured entry, also the single entry of a
\* subscription verifyPayment creates) and in a payment.captured or
\* payment.failed webhook; reads, usage recording, cancellation and admin
\* override leave it as it was
C21_HistoryAppendOnly ==
  [][\A u \in DOMAIN subs' :
       LET old == IF HasSub(u) THEN subs[u].paymentHistory ELSE << >>
           new == subs'[u].paymentHistory
       IN  /\ Len(new) \in {Len(old), Len(old) + 1}
           /\ SubSeq(new, 1, Len(old)) = old
           /\ Len(new) = Len(old) + 1 =>
                \/ /\ resp'.op = "verifyPayment" /\ resp'.code = "ok"
                   /\ resp'.user = u
                   /\ new[Len(new)].status = "captured"
                \/ /\ resp'.op = "webhook" /\ resp'.http = 200
                   /\ resp'.type = "payment.captured"
                   /\ new[Len(new)].status = "captured"
                \/ /\ resp'.op = "webhook" /\ resp'.http = 200
                   /\ resp'.type = "payment.failed"
                   /\ new[Len(new)].status = "failed"
           /\ (now' = now /\ resp'.op = "verifyPayment" /\ resp'.code = "ok"
                 /\ resp'.user = u) => Len(new) = Len(old) + 1
           /\ (now' = now
                 /\ resp'.op \in {"getMySubscription", "generate", "lyricsRoute",
                                  "cancelSubscription", "adminOverrideSubscription",
                                  "register"}) => new = old]_vars

\* C21 witness: an admin override over a subscription with a captured and a
\* failed entry kept both, in order
C21_Witness ==
  /\ resp.op = "adminOverrideSubscription" /\ resp.code = "ok"
  /\ \E u \in DOMAIN subs :
       /\ u = resp.user
       /\ subs[u].adminOverride.isOverridden
       /\ Len(subs[u].paymentHistory) = 2
       /\ subs[u].paymentHistory[1].status = "captured"
       /\ subs[u].paymentHistory[2].status = "failed"

\* C22: every registered user has a subscription
C22_OneSubscriptionPerUser ==
  \A u \in users : HasSub(u)

\* ------------------------------------------------------------------------
\* Properties of access after cancellation, override and expiry (under
\* SpecAccess)
\* ------------------------------------------------------------------------

\* C25: while a cancelled paid subscription has not passed its end date,
\* checkUsageLimit does not turn the user's requests away as inactive
C25_AccessUntilEndDate ==
  [][(/\ now' = now
      /\ resp'.op = "checkUsageLimit"
      /\ HasSub(resp'.user)
      /\ subs[resp'.user].status = "cancelled"
      /\ PlanTier(subs[resp'.user].plan) # "free"
      /\ subs[resp'.user].endDate # NoDate
      /\ now <= subs[resp'.user].endDate)
     => resp'.code # "SUBSCRIPTION_INACTIVE"]_vars

RaceTypes == {"music", "voice"}

\* the stored counter of u for a type, and the limit of u's plan for it
Counter(store, u, type) == store[u].usage[UsageField(type)]

Limit(store, u, type) == PlanLimits(store[u].plan)[LimitField(type)]

\* the requests of u for a type between their check and the end of their
\* recording
InFlight(rq, u, type) ==
  {r \in DOMAIN rq : rq[r].pc \in {"handler", "saving"}
                       /\ rq[r].user = u /\ rq[r].type = type}

\* no recording holds a copy whose counter is above the stored one
ReadsFresh(rq, store, u, type) ==
  \A r \in DOMAIN rq :
    (rq[r].pc = "saving" /\ rq[r].user = u /\ rq[r].type = type) =>
      rq[r].read <= Counter(store, u, type)

\* the stored counter, with one more for every request in flight, stays
\* within limit - 1 + the number of concurrent requests
WithinMargin(rq, store, u, type) ==
  Counter(store, u, type) + Cardinality(InFlight(rq, u, type))
    <= Limit(store, u, type) - 1 + Cardinality(DOMAIN rq)

C30_UnguardedReadModifyWrite ==
  [][\A r \in DOMAIN reqs :
       (reqs[r].pc = "saving" /\ reqs'[r].pc = "idle") =>
         LET u    == reqs[r].user
             type == reqs[r].type
         IN  /\ Counter(subs', u, type) = reqs[r].read + 1
             /\ gens'[u][type] = gens[u][type] + 1
             /\ subs' = [subs EXCEPT ![u].usage[UsageField(type)] = reqs[r].read + 1]
             /\ (reqs[r].read = Counter(subs, u, type)
                   /\ Counter(subs, u, type) = gens[u][type]) =>
                  Counter(subs', u, type) = gens'[u][type]]_vars

\* C30 witness: two music generations recorded since the last reset, both
\* recordings having read 0, and the stored counter at 1
C30_Witness ==
  /\ resp.op = "generate" /\ resp.type = "music" /\ resp.saves = 1
  /\ resp.current = 0
  /\ \E u \in DOMAIN subs :
       /\ u = resp.user
       /\ gens[u]["music"] = 2
       /\ Counter(subs, u, "music") = 1

\* ------------------------------------------------------------------------
\* Properties of the checkout (under SpecCheckout)
\* ------------------------------------------------------------------------

\* C24: a createOrder or verifyPayment that ends with an infrastructure
\* error has changed neither the subscriptions nor the plans with their
\* offers' redemption counts (nor the gateway's orders)
C24_BillingFailsClosed ==
  [][(resp'.op \in {"createOrder", "verifyPayment"} /\ resp'.http = 500) =>
       /\ subs' = subs
       /\ plans' = plans
       /\ orders' = orders]_vars

\* C27: a verifyPayment whose ids and signature pass and whose planId names
\* an existing plan activates that plan, active or not, free or paid, with
\* the cycle of the request, and redeems the offer of that plan the
\* request's promo code names, whatever orders exist at the gateway
C27_RequestDecidesActivation ==
  [][(resp'.op = "verifyPayment" /\ ~resp'.threw
        /\ ~MissingDetails(resp') /\ GenuineSignature(resp')
        /\ resp'.plan \in DOMAIN plans) =>
       LET u      == resp'.user
           pl     == resp'.plan
           offers == plans[pl].offers
           i      == IF resp'.promo = None THEN 0
                     ELSE FindOffer(offers, ToUpperCase(resp'.promo), 1)
       IN  /\ resp'.code = "ok"
           /\ u \in DOMAIN subs'
           /\ subs'[u].plan = pl
           /\ subs'[u].billingCycle = resp'.type
           /\ subs'[u].status = "active"
           /\ subs'[u].razorpay.orderId = resp'.orderId
           /\ orders' = orders
           /\ i = 0 => subs'[u].appliedPromo = NoPromo /\ plans' = plans
           /\ i # 0 =>
                /\ subs'[u].appliedPromo.code = offers[i].code
                /\ plans' = [plans EXCEPT ![pl].offers[i].currentRedemptions =
                                            offers[i].currentRedemptions + 1]]_vars

\* C27 witness: the order was created for pro, monthly, without a promo
\* code, and the subscription that stores its id was activated yearly with
\* SAVE20 redeemed, on a plan that is inactive
C27_Witness ==
  /\ resp.op = "verifyPayment" /\ resp.code = "ok"
  /\ \E u \in DOMAIN subs : \E k \in 1..Len(orders) :
       /\ u = resp.user
       /\ orders[k].id = subs[u].razorpay.orderId
       /\ orders[k].notes.planId = "pro"
       /\ orders[k].notes.billingCycle = "monthly"
       /\ orders[k].notes.promoCode = ""
       /\ subs[u].plan = "pro" /\ ~plans["pro"].isActive
       /\ subs[u].billingCycle = "yearly"
       /\ subs[u].appliedPromo.code = "SAVE20"
       /\ plans["pro"].offers[1].currentRedemptions = 1

\* C28: createOrder leaves subscriptions and plans as they are; a stored
\* order id changes only in a verifyPayment of that user, to the request's
\* order id; a webhook leaves the set of subscriptions and every
\* subscription's plan, cycle, dates and usage as they are, and one whose
\* order id no subscription stores is answered 200 and changes nothing; a
\* subscription is created, or its plan changed, only by register or
\* verifyPayment
C28_WebhookNeedsVerifiedOrder ==
  [][/\ resp'.op = "createOrder" => subs' = subs /\ plans' = plans
     /\ \A u \in DOMAIN subs' :
          /\ subs'[u].razorpay.orderId
               # (IF HasSub(u) THEN subs[u].razorpay.orderId ELSE None) =>
               /\ resp'.op = "verifyPayment" /\ resp'.user = u
               /\ subs'[u].razorpay.orderId = resp'.orderId
          /\ (~HasSub(u) \/ subs'[u].plan # subs[u].plan) =>
               resp'.op \in {"register", "verifyPayment"} /\ resp'.user = u
     /\ resp'.op = "webhook" =>
          /\ DOMAIN subs' = DOMAIN subs
          /\ \A u \in DOMAIN subs :
               /\ subs'[u].plan = subs[u].plan
               /\ subs'[u].billingCycle = subs[u].billingCycle
               /\ subs'[u].startDate = subs[u].startDate
               /\ subs'[u].endDate = subs[u].endDate
               /\ subs'[u].renewalDate = subs[u].renewalDate
               /\ subs'[u].usage = subs[u].usage
               /\ subs'[u].razorpay.orderId = subs[u].razorpay.orderId
          /\ (GenuineWebhook(resp') /\ resp'.orderId # None
                /\ \A u \in DOMAIN subs :
                     subs[u].razorpay.orderId # resp'.orderId) =>
               /\ resp'.http = 200
               /\ subs' = subs]_vars

\* C28 witness: a payment.captured webhook for an order created at the
\* gateway and never verified, answered 200 with the user still on the free
\* plan
C28_Witness ==
  /\ resp.op = "webhook" /\ resp.type = "payment.captured" /\ resp.http = 200
  /\ \E k \in 1..Len(orders) : orders[k].id = resp.orderId
  /\ \E u \in DOMAIN subs :
       /\ \E k \in 1..Len(orders) : orders[k].notes.userId = u
       /\ subs[u].razorpay.orderId = None
       /\ subs[u].plan = FreePlan
       /\ subs[u].paymentHistory = << >>

====
